---- MODULE Spec2Model ----
(***************************************************************************)
(* godash-diagrams: the Problem diagram state machine, its sequence tree   *)
(* (wildcards and merging) and the deferred opponent reply; the Freeplay   *)
(* diagram (history, undo/redo/pass) and the Replay diagram (navigation).  *)
(*                                                                         *)
(* A coordinate is <<row, col>>.  A board is a function from every         *)
(* coordinate of the N x N space to "empty", "black" or "white" (godash    *)
(* keeps only the stones; the function form is the same information).      *)
(* A sequence tree is a function from a set of coordinates to nodes        *)
(* [result, children, wildcardChild]; wildcardChild is <<>> for undefined  *)
(* and <<node>> when present.                                              *)
(***************************************************************************)
EXTENDS Integers, Sequences, FiniteSets, TLC

VARIABLES
    \* ---- ProblemDiagram fields ----
    parsedBoard,      \* [board, rowCount, columnCount, otherMarks]
    toPlay,           \* "black" | "white"
    ignoreKo,         \* BOOLEAN
    allSequences,     \* declared paths in processing order: solutions, then sequences
    sequenceTree,
    result,
    currentTree,
    currentWildcard,
    playedMoves,
    currentBoard,
    isBlackTurn,
    whiteCaptured,
    blackCaptured,
    koPoint,          \* <<>> for null, <<coord>> otherwise
    \* ---- the event loop ----
    timers,           \* pending setTimeout callbacks, oldest first
    lastOp,           \* the operation that produced this state
    \* ---- sequence-tree construction loop (SpecTree) ----
    built,            \* number of declared paths already folded into sequenceTree
    \* ---- FreeplayDiagram and ReplayDiagram fields ----
    diagramType,      \* "problem" | "freeplay" | "replay"
    initialBoard,
    history,          \* Freeplay: entries [type, move] / [type, color]
    currentMoveIndex, \* Freeplay and Replay: -1 is the starting position
    colorMode,        \* Freeplay: "black" | "white" | "alternate"
    moveSequence,     \* Replay: [moveNumber, coordinate, color]
    \* ---- the text a constructor or validateBoard is given ----
    lines             \* [rows, config] before it is read, <<>> once a diagram exists

\* The fields of the other two diagram classes.
otherDiagramVars == <<diagramType, initialBoard, history, currentMoveIndex,
                      colorMode, moveSequence, lines>>

vars == <<parsedBoard, toPlay, ignoreKo, allSequences, sequenceTree, result,
          currentTree, currentWildcard, playedMoves, currentBoard, isBlackTurn,
          whiteCaptured, blackCaptured, koPoint, timers, lastOp, built,
          diagramType, initialBoard, history, currentMoveIndex, colorMode,
          moveSequence, lines>>

\* ------------------------------------------------------------------------
\* Bounds
\* ------------------------------------------------------------------------
MaxPaths == 2        \* declared paths per Problem diagram (Spec)
MaxPathLen == 2      \* steps per declared path (Spec)
MaxMoves == 3        \* cap on Len(playedMoves)
MaxTimers == 2       \* cap on pending deferred callbacks
MaxTreePaths == 2    \* declared paths folded by the construction loop (SpecTree)
MaxTreePathLen == 4  \* steps per declared path (SpecTree)

\* ------------------------------------------------------------------------
\* godash: colours, boards, groups, liberties
\* ------------------------------------------------------------------------
BLACK == "black"
WHITE == "white"
EMPTY == "empty"

Success == "success"
Failure == "failure"
Incomplete == "incomplete"

oppositeColor(color) == IF color = BLACK THEN WHITE ELSE BLACK

Move(coordinate, color) == [coordinate |-> coordinate, color |-> color]

Adjacent(board, p) ==
    {q \in DOMAIN board :
        \/ q[1] = p[1] /\ (q[2] = p[2] + 1 \/ q[2] = p[2] - 1)
        \/ q[2] = p[2] /\ (q[1] = p[1] + 1 \/ q[1] = p[1] - 1)}

RECURSIVE Grow(_, _, _)
Grow(board, color, S) ==
    LET T == S \cup {q \in UNION {Adjacent(board, p) : p \in S} : board[q] = color}
    IN  IF T = S THEN S ELSE Grow(board, color, T)

group(board, p) == Grow(board, board[p], {p})

liberties(board, p) ==
    {q \in UNION {Adjacent(board, s) : s \in group(board, p)} : board[q] = EMPTY}

libertyCount(board, p) == Cardinality(liberties(board, p))

\* The opposing groups next to the move that are on their last liberty.
Killed(board, move) ==
    UNION {group(board, q) :
             q \in {a \in Adjacent(board, move.coordinate) :
                      /\ board[a] = oppositeColor(move.color)
                      /\ libertyCount(board, a) = 1}}

isLegalMove(board, move) ==
    LET placed == [board EXCEPT ![move.coordinate] = move.color]
        will_have_liberty == libertyCount(placed, move.coordinate) > 0
        will_kill_something ==
            \E a \in Adjacent(board, move.coordinate) :
                board[a] = oppositeColor(move.color) /\ libertyCount(board, a) = 1
    IN  will_have_liberty \/ will_kill_something

\* addMove throws on an illegal position and on an occupied point.
addMoveThrows(board, move) ==
    ~isLegalMove(board, move) \/ board[move.coordinate] # EMPTY

addMove(board, move) ==
    LET killed == Killed(board, move)
    IN  [q \in DOMAIN board |->
            IF q = move.coordinate THEN move.color
            ELSE IF q \in killed THEN EMPTY
            ELSE board[q]]

\* Stones of the first board that are not on the second, as <<coordinate, color>>.
difference(board1, board2) ==
    {<<q, board1[q]>> : q \in {c \in DOMAIN board1 :
                                  board1[c] # EMPTY /\ board2[c] # board1[c]}}

\* The single just-captured point, when the capturing stone stands alone on
\* one liberty; <<>> (null) otherwise.
followupKo(board, move) ==
    LET after == addMove(board, move)
        killed == difference(board, after)
    IN  IF /\ Cardinality(killed) = 1
           /\ group(after, move.coordinate) = {move.coordinate}
           /\ libertyCount(after, move.coordinate) = 1
        THEN <<(CHOOSE k \in killed : TRUE)[1]>>
        ELSE <<>>

countCapturesFromDiff(boardBefore, boardAfter) ==
    LET diff == difference(boardBefore, boardAfter)
    IN  [whiteCaptured |-> Cardinality({e \in diff : e[2] = WHITE}),
         blackCaptured |-> Cardinality({e \in diff : e[2] = BLACK})]

\* ------------------------------------------------------------------------
\* Sequence tree: nodes, per-path build, wildcard application, merge
\* ------------------------------------------------------------------------
EmptyTree == <<>>

Size(tree) == Cardinality(DOMAIN tree)

SequenceNode(r, children, wildcardChild) ==
    [result |-> r, children |-> children, wildcardChild |-> wildcardChild]

\* The key under which two wildcardChild nodes are wrapped to reuse the merge.
DummyCoordinate == <<0, 0>>

\* Result of the last step of a path: Success for a solution, Failure otherwise.
LeafResult(isSolution) == IF isSolution THEN Success ELSE Failure

\* The bottom-up loop over path[i], i = from down to stop (1-based), shared
\* by the root-wildcard and the ordinary branch of the constructor.
RECURSIVE BuildLoop(_, _, _, _, _, _, _, _)
BuildLoop(marks, otherMarks, isSolution, i, stop, tree, wildcardTree, hasWildcard) ==
    IF i < stop THEN tree
    ELSE
        LET item == marks[i]
            isLastNode == i = Len(marks)
            nodeResult == IF isLastNode THEN LeafResult(isSolution) ELSE Incomplete
        IN  IF item = "*"
            THEN BuildLoop(marks, otherMarks, isSolution, i - 1, stop,
                           tree, wildcardTree, TRUE)
            ELSE
                LET coord == otherMarks[item][1]
                    wt == IF hasWildcard THEN tree ELSE wildcardTree
                    tr == IF hasWildcard THEN EmptyTree ELSE tree
                    node == SequenceNode(nodeResult, tr,
                                IF Size(wt) > 0
                                THEN <<SequenceNode(Incomplete, wt, <<>>)>>
                                ELSE <<>>)
                IN  BuildLoop(marks, otherMarks, isSolution, i - 1, stop,
                              (coord :> node), EmptyTree, FALSE)

applyWildcardToTree(tree, wildcardNode) ==
    [c \in DOMAIN tree |->
        SequenceNode(tree[c].result, tree[c].children, <<wildcardNode>>)]

\* The merge with the later-declared node's result kept for a leaf.
MergedResultLater(hasChildren, node1, node2) ==
    IF hasChildren THEN Incomplete ELSE node2.result

\* Result of a node present in both trees.
MergedResult(hasChildren, node1, node2) ==
    IF hasChildren THEN Incomplete ELSE node1.result

RECURSIVE mergeSequenceTrees(_, _)
mergeSequenceTrees(tree1, tree2) ==
    [coord \in DOMAIN tree1 \cup DOMAIN tree2 |->
        IF coord \notin DOMAIN tree2 THEN tree1[coord]
        ELSE IF coord \notin DOMAIN tree1 THEN tree2[coord]
        ELSE
            LET node1 == tree1[coord]
                node2 == tree2[coord]
                mergedChildren == mergeSequenceTrees(node1.children, node2.children)
                mergedWildcardChild ==
                    IF node1.wildcardChild # <<>> /\ node2.wildcardChild # <<>>
                    THEN <<mergeSequenceTrees(
                              DummyCoordinate :> node1.wildcardChild[1],
                              DummyCoordinate :> node2.wildcardChild[1])[DummyCoordinate]>>
                    ELSE IF node1.wildcardChild # <<>> THEN node1.wildcardChild
                    ELSE node2.wildcardChild
                hasChildren == Size(mergedChildren) > 0 \/ mergedWildcardChild # <<>>
            IN  SequenceNode(MergedResult(hasChildren, node1, node2),
                             mergedChildren, mergedWildcardChild)]

\* One iteration of the constructor's loop over allSequences.
FoldSequence(tree, seq, otherMarks) ==
    LET marks == seq.marks
    IN  IF Len(marks) = 0 THEN tree
        ELSE IF marks[1] = "*"
        THEN applyWildcardToTree(tree,
                 SequenceNode(Incomplete,
                     BuildLoop(marks, otherMarks, seq.isSolution, Len(marks), 2,
                               EmptyTree, EmptyTree, FALSE),
                     <<>>))
        ELSE mergeSequenceTrees(tree,
                 BuildLoop(marks, otherMarks, seq.isSolution, Len(marks), 1,
                           EmptyTree, EmptyTree, FALSE))

RECURSIVE BuildTree(_, _, _)
BuildTree(seqs, n, otherMarks) ==
    IF n = 0 THEN EmptyTree
    ELSE FoldSequence(BuildTree(seqs, n - 1, otherMarks), seqs[n], otherMarks)

\* The root-level wildcard: the wildcardChild of the first root node that has
\* one.  Root nodes get a wildcardChild only from applyWildcardToTree, which
\* gives every root node present the same one, and a merge keeps it, so all
\* root nodes that have a wildcardChild have the same one.
RootWildcard(tree) ==
    LET rootWildcards == {c \in DOMAIN tree : tree[c].wildcardChild # <<>>}
    IN  IF rootWildcards # {}
        THEN tree[CHOOSE c \in rootWildcards : TRUE].wildcardChild
        ELSE <<>>

\* No step of a path is ever found illegal.
ReplayLegalAlways(marks, otherMarks, i, testBoard, currentColor) == TRUE

\* validateSequence: TRUE when the path raises no error.
RECURSIVE ReplayLegal(_, _, _, _, _)
ReplayLegal(marks, otherMarks, i, testBoard, currentColor) ==
    IF i > Len(marks) THEN TRUE
    ELSE IF marks[i] = "*"
    THEN ReplayLegal(marks, otherMarks, i + 1, testBoard, oppositeColor(currentColor))
    ELSE
        LET move == Move(otherMarks[marks[i]][1], currentColor)
        IN  /\ isLegalMove(testBoard, move)
            /\ ~addMoveThrows(testBoard, move)
            /\ ReplayLegal(marks, otherMarks, i + 1, addMove(testBoard, move),
                           oppositeColor(currentColor))

\* A wildcard passes at any position.
IsPlayerMoveAlways(i) == TRUE

\* Player moves are at the even indices 0, 2, 4, ...
IsPlayerMove(i) == i % 2 = 0

validateSequence(marks, otherMarks, board, color) ==
    /\ \A i \in 1..Len(marks) :
          IF marks[i] = "*" THEN IsPlayerMove(i - 1)
          ELSE marks[i] \in DOMAIN otherMarks
    /\ ReplayLegal(marks, otherMarks, 1, board, color)

\* ------------------------------------------------------------------------
\* Board text -> ParsedBoard (square boards, no size option)
\* ------------------------------------------------------------------------
TokenColor(token) ==
    IF token \in {"X", "x"} THEN BLACK
    ELSE IF token \in {"O", "o"} THEN WHITE
    ELSE EMPTY

IsMark(token) == token \notin {".", "+", "X", "x", "O", "o"}

\* Coordinates carrying the token, in row-major order from flat index k on.
RECURSIVE MarkCoordinates(_, _, _)
MarkCoordinates(rows, token, k) ==
    LET columnCount == Len(rows[1])
        row == (k \div columnCount) + 1
        col == (k % columnCount) + 1
    IN  IF k >= Len(rows) * columnCount THEN <<>>
        ELSE (IF rows[row][col] = token THEN <<(<<row - 1, col - 1>>)>> ELSE <<>>)
             \o MarkCoordinates(rows, token, k + 1)

ParseRows(rows) ==
    LET rowCount == Len(rows)
        columnCount == Len(rows[1])
        space == (0..(rowCount - 1)) \X (0..(rowCount - 1))
        tokens == {rows[r][c] : r \in 1..rowCount, c \in 1..columnCount}
    IN  [board |-> [q \in space |-> TokenColor(rows[q[1] + 1][q[2] + 1])],
         rowCount |-> rowCount,
         columnCount |-> columnCount,
         otherMarks |-> [m \in {t \in tokens : IsMark(t)} |->
                            MarkCoordinates(rows, m, 0)]]

\* ------------------------------------------------------------------------
\* ProblemDiagram: construction
\* ------------------------------------------------------------------------
\* A declared path with its kind.
Declared(marks, isSolution) == [marks |-> marks, isSolution |-> isSolution]

\* TRUE when the constructor raises no error for this input.
ConstructorAccepts(parsed, color, seqs) ==
    /\ \A m \in DOMAIN parsed.otherMarks : Len(parsed.otherMarks[m]) <= 1
    /\ \A k \in 1..Len(seqs) :
          validateSequence(seqs[k].marks, parsed.otherMarks, parsed.board, color)

\* Pending callbacks carry two history flags that the program does not
\* have: stale (the tree cursor was reassigned after the callback was
\* scheduled) and reset (reset() ran after it was scheduled).
TimerToken == [stale |-> FALSE, reset |-> FALSE]

MarkStale(ts) == [k \in 1..Len(ts) |-> [ts[k] EXCEPT !.stale = TRUE]]

MarkReset(ts) == [k \in 1..Len(ts) |-> [stale |-> TRUE, reset |-> TRUE]]

Op(kind, outcome, coord) == [kind |-> kind, outcome |-> outcome, coord |-> coord]

\* A Problem diagram has none of the Freeplay and Replay fields; they are
\* held at fixed values.
ProblemOnly(board) ==
    /\ diagramType = "problem"
    /\ initialBoard = board
    /\ history = <<>>
    /\ currentMoveIndex = -1
    /\ colorMode = "alternate"
    /\ moveSequence = <<>>
    /\ lines = <<>>

Constructed(parsed, color, ko, seqs) ==
    /\ parsedBoard = parsed
    /\ toPlay = color
    /\ ignoreKo = ko
    /\ allSequences = seqs
    /\ sequenceTree = BuildTree(seqs, Len(seqs), parsed.otherMarks)
    /\ built = Len(seqs)
    /\ result = Incomplete
    /\ playedMoves = <<>>
    /\ currentBoard = parsed.board
    /\ isBlackTurn = (color = BLACK)
    /\ whiteCaptured = 0
    /\ blackCaptured = 0
    /\ koPoint = <<>>
    /\ currentTree = sequenceTree
    /\ currentWildcard = RootWildcard(sequenceTree)
    /\ timers = <<>>
    /\ lastOp = Op("construct", "ok", <<>>)
    /\ ProblemOnly(parsed.board)

\* ------------------------------------------------------------------------
\* ProblemDiagram: play
\* ------------------------------------------------------------------------
Window == (0..(parsedBoard.rowCount - 1)) \X (0..(parsedBoard.columnCount - 1))

currentColor == IF isBlackTurn THEN BLACK ELSE WHITE

\* The lookup with the wildcard consulted before the explicit children.
MatchNodeWildcardFirst(tree, wildcard, coord) ==
    IF wildcard # <<>> THEN wildcard
    ELSE IF coord \in DOMAIN tree THEN <<tree[coord]>>
    ELSE <<>>

\* The node a player move at coord matches: the explicit child, else the
\* current wildcard, else none (<<>>).
MatchNode(tree, wildcard, coord) ==
    IF coord \in DOMAIN tree THEN <<tree[coord]>>
    ELSE wildcard

\* The off-tree branch without its guard on Success.
OffTreeResultAlways(r) == Failure

\* Result after a move that matches nothing.
OffTreeResult(r) == IF r # Success THEN Failure ELSE r

\* The ko check that never rejects.
KoViolationNever(coord) == FALSE

KoViolation(coord) == ~ignoreKo /\ koPoint # <<>> /\ coord = koPoint[1]

\* The ko point computed whether or not ko is ignored.
KoAfterAlways(boardBefore, move) == followupKo(boardBefore, move)

\* The ko point after a move: updated only when ko is enforced.
KoAfter(boardBefore, move) ==
    IF ~ignoreKo THEN followupKo(boardBefore, move) ELSE koPoint

\* The part of a move shared by the player and the opponent reply: record
\* it, place it, count captures, update the ko point, flip the turn.
PlaceMove(move) ==
    LET boardBefore == currentBoard
        boardAfter == addMove(boardBefore, move)
        captures == countCapturesFromDiff(boardBefore, boardAfter)
    IN  /\ playedMoves' = Append(playedMoves, move)
        /\ currentBoard' = boardAfter
        /\ whiteCaptured' = whiteCaptured + captures.whiteCaptured
        /\ blackCaptured' = blackCaptured + captures.blackCaptured
        /\ koPoint' = KoAfter(boardBefore, move)
        /\ isBlackTurn' = ~isBlackTurn

\* addMove threw after the move was pushed: nothing else was assigned.
MoveThrew(move) ==
    /\ playedMoves' = Append(playedMoves, move)
    /\ UNCHANGED <<currentBoard, whiteCaptured, blackCaptured, koPoint, isBlackTurn,
                   result, currentTree, currentWildcard, timers>>

handleUserMove(coord) ==
    /\ Len(playedMoves) < MaxMoves
    /\ UNCHANGED <<parsedBoard, toPlay, ignoreKo, allSequences, sequenceTree, built,
                   otherDiagramVars>>
    /\ IF KoViolation(coord)
       THEN /\ lastOp' = Op("click", "ko", coord)
            /\ UNCHANGED <<playedMoves, currentBoard, whiteCaptured, blackCaptured,
                           koPoint, isBlackTurn, result, currentTree,
                           currentWildcard, timers>>
       ELSE
         LET node == MatchNode(currentTree, currentWildcard, coord)
             move == Move(coord, currentColor)
         IN  IF addMoveThrows(currentBoard, move)
             THEN /\ MoveThrew(move)
                  /\ lastOp' = Op("click", "threw", coord)
             ELSE IF node = <<>>
             THEN /\ PlaceMove(move)
                  /\ result' = OffTreeResult(result)
                  /\ currentTree' = EmptyTree
                  /\ currentWildcard' = <<>>
                  /\ timers' = MarkStale(timers)
                  /\ lastOp' = Op("click", "offTree", coord)
             ELSE /\ Size(node[1].children) > 0 => Len(timers) < MaxTimers
                  /\ PlaceMove(move)
                  /\ currentTree' = node[1].children
                  /\ currentWildcard' = node[1].wildcardChild
                  /\ result' = node[1].result
                  /\ timers' = IF Size(node[1].children) > 0
                               THEN Append(MarkStale(timers), TimerToken)
                               ELSE MarkStale(timers)
                  /\ lastOp' = Op("click", "matched", coord)

\* The oldest pending callback fires.
playComputerResponse ==
    /\ timers # <<>>
    /\ UNCHANGED <<parsedBoard, toPlay, ignoreKo, allSequences, sequenceTree, built,
                   otherDiagramVars>>
    /\ IF Size(currentTree) = 0
       THEN /\ timers' = Tail(timers)
            /\ lastOp' = Op("reply", "none", <<>>)
            /\ UNCHANGED <<playedMoves, currentBoard, whiteCaptured, blackCaptured,
                           koPoint, isBlackTurn, result, currentTree, currentWildcard>>
       ELSE \E coord \in DOMAIN currentTree :
              LET node == currentTree[coord]
                  move == Move(coord, currentColor)
              IN  IF addMoveThrows(currentBoard, move)
                  THEN /\ playedMoves' = Append(playedMoves, move)
                       /\ timers' = Tail(timers)
                       /\ lastOp' = Op("reply", "threw", coord)
                       /\ UNCHANGED <<currentBoard, whiteCaptured, blackCaptured,
                                      koPoint, isBlackTurn, result, currentTree,
                                      currentWildcard>>
                  ELSE /\ PlaceMove(move)
                       /\ currentTree' = node.children
                       /\ currentWildcard' = node.wildcardChild
                       /\ result' = node.result
                       /\ timers' = MarkStale(Tail(timers))
                       /\ lastOp' = Op("reply", "played", coord)

\* A reset that leaves the ko point and the capture counts as they are.
resetKeepsKo ==
    /\ currentTree' = sequenceTree
    /\ currentWildcard' = RootWildcard(sequenceTree)
    /\ playedMoves' = <<>>
    /\ currentBoard' = parsedBoard.board
    /\ isBlackTurn' = (toPlay = BLACK)
    /\ result' = Incomplete
    /\ timers' = MarkReset(timers)
    /\ lastOp' = Op("reset", "ok", <<>>)
    /\ UNCHANGED <<parsedBoard, toPlay, ignoreKo, allSequences, sequenceTree, built,
                   whiteCaptured, blackCaptured, koPoint, otherDiagramVars>>

reset ==
    /\ currentTree' = sequenceTree
    /\ currentWildcard' = RootWildcard(sequenceTree)
    /\ playedMoves' = <<>>
    /\ currentBoard' = parsedBoard.board
    /\ isBlackTurn' = (toPlay = BLACK)
    /\ result' = Incomplete
    /\ whiteCaptured' = 0
    /\ blackCaptured' = 0
    /\ koPoint' = <<>>
    /\ timers' = MarkReset(timers)
    /\ lastOp' = Op("reset", "ok", <<>>)
    /\ UNCHANGED <<parsedBoard, toPlay, ignoreKo, allSequences, sequenceTree, built,
                   otherDiagramVars>>

\* ------------------------------------------------------------------------
\* Inputs of the Problem diagram specification
\* ------------------------------------------------------------------------
ProblemRows == << <<"a", "b">>, <<"c", ".">> >>

PathsUpTo(alphabet, maxLen) == UNION {[1..n -> alphabet] : n \in 1..maxLen}

ValidPaths(parsed, color, maxLen) ==
    {p \in PathsUpTo(DOMAIN parsed.otherMarks \cup {"*"}, maxLen) :
        validateSequence(p, parsed.otherMarks, parsed.board, color)}

\* allSequences: the solutions in declaration order, then the sequences.
SequenceLists(paths, maxPaths) ==
    UNION {{[k \in 1..Len(kinds) |-> Declared(ps[k], kinds[k])] :
              ps \in [1..Len(kinds) -> paths]} :
           kinds \in {ks \in PathsUpTo(BOOLEAN, maxPaths) \cup {<<>>} :
                        \A i, j \in 1..Len(ks) : i < j /\ ks[j] => ks[i]}}

ProblemParsed == ParseRows(ProblemRows)

ProblemPaths ==
    [color \in {BLACK, WHITE} |-> ValidPaths(ProblemParsed, color, MaxPathLen)]

Init ==
    \E color \in {BLACK, WHITE}, ko \in BOOLEAN :
      \E seqs \in SequenceLists(ProblemPaths[color], MaxPaths) :
          /\ ConstructorAccepts(ProblemParsed, color, seqs)
          /\ Constructed(ProblemParsed, color, ko, seqs)

Next ==
    \/ \E coord \in Window : handleUserMove(coord)
    \/ playComputerResponse
    \/ reset

Spec == Init /\ [][Next]_vars

\* ------------------------------------------------------------------------
\* The constructor's loop over allSequences, one declared path per step
\* ------------------------------------------------------------------------
TreeRows == << <<"a", "b">>, <<"c", "d">> >>

TreeParsed == ParseRows(TreeRows)

TreePaths ==
    [color \in {BLACK, WHITE} |-> ValidPaths(TreeParsed, color, MaxTreePathLen)]

\* The constructor just before the loop: play state initialised, tree empty.
InitTree ==
    \E color \in {BLACK, WHITE} :
        /\ parsedBoard = TreeParsed
        /\ toPlay = color
        /\ ignoreKo = FALSE
        /\ allSequences = <<>>
        /\ sequenceTree = EmptyTree
        /\ built = 0
        /\ result = Incomplete
        /\ currentTree = EmptyTree
        /\ currentWildcard = <<>>
        /\ playedMoves = <<>>
        /\ currentBoard = TreeParsed.board
        /\ isBlackTurn = (color = BLACK)
        /\ whiteCaptured = 0
        /\ blackCaptured = 0
        /\ koPoint = <<>>
        /\ timers = <<>>
        /\ lastOp = Op("construct", "start", <<>>)
        /\ ProblemOnly(TreeParsed.board)

\* The next declared path is validated and folded into the tree.  Solutions
\* are processed before sequences.
FoldNext ==
    /\ built < MaxTreePaths
    /\ \E marks \in TreePaths[toPlay], isSolution \in BOOLEAN :
          /\ isSolution => \A k \in 1..built : allSequences[k].isSolution
          /\ allSequences' = Append(allSequences, Declared(marks, isSolution))
          /\ sequenceTree' = FoldSequence(sequenceTree, Declared(marks, isSolution),
                                          parsedBoard.otherMarks)
    /\ built' = built + 1
    /\ lastOp' = Op("fold", "ok", <<>>)
    /\ UNCHANGED <<parsedBoard, toPlay, ignoreKo, result, currentTree, currentWildcard,
                   playedMoves, currentBoard, isBlackTurn, whiteCaptured,
                   blackCaptured, koPoint, timers, otherDiagramVars>>

NextTree == FoldNext

SpecTree == InitTree /\ [][NextTree]_vars

\* ------------------------------------------------------------------------
\* Reading a tree
\* ------------------------------------------------------------------------
\* The node reached from the root by the first k steps of a declared path,
\* <<node>>, or <<>> when the tree has no such position.  A mark steps to
\* the child at its coordinate, "*" to the wildcardChild (at the root: to
\* the root-level wildcard).
RECURSIVE Walk(_, _, _, _)
Walk(tree, marks, otherMarks, k) ==
    IF k = 1
    THEN IF marks[1] = "*" THEN RootWildcard(tree)
         ELSE IF otherMarks[marks[1]][1] \in DOMAIN tree
              THEN <<tree[otherMarks[marks[1]][1]]>>
              ELSE <<>>
    ELSE LET prev == Walk(tree, marks, otherMarks, k - 1)
         IN  IF prev = <<>> THEN <<>>
             ELSE IF marks[k] = "*" THEN prev[1].wildcardChild
             ELSE IF otherMarks[marks[k]][1] \in DOMAIN prev[1].children
                  THEN <<prev[1].children[otherMarks[marks[k]][1]]>>
                  ELSE <<>>

IsInner(node) == Size(node.children) > 0 \/ node.wildcardChild # <<>>

RECURSIVE NodeOK(_)
NodeOK(node) ==
    /\ IsInner(node) => node.result = Incomplete
    /\ \A c \in DOMAIN node.children : NodeOK(node.children[c])
    /\ node.wildcardChild # <<>> => NodeOK(node.wildcardChild[1])

\* Every <<moves, result>> the diagram can show within d more moves, playing
\* from the given cursor: the player clicks any legal point, and after a
\* matched move with children the opponent replies with one of them.
RECURSIVE Explore(_, _, _, _, _, _, _, _, _)
Explore(tree, wildcard, r, replyDue, board, color, ko, moves, d) ==
    {<<moves, r>>} \cup
    IF d = 0 THEN {}
    ELSE IF replyDue
    THEN UNION {Explore(tree[c].children, tree[c].wildcardChild, tree[c].result,
                        FALSE, addMove(board, Move(c, color)), oppositeColor(color),
                        followupKo(board, Move(c, color)), Append(moves, c), d - 1) :
                  c \in {x \in DOMAIN tree : ~addMoveThrows(board, Move(x, color))}}
    ELSE UNION {LET node == MatchNode(tree, wildcard, c)
                    after == addMove(board, Move(c, color))
                    nextKo == followupKo(board, Move(c, color))
                IN  IF node = <<>>
                    THEN Explore(EmptyTree, <<>>, OffTreeResult(r), FALSE, after,
                                 oppositeColor(color), nextKo, Append(moves, c), d - 1)
                    ELSE Explore(node[1].children, node[1].wildcardChild,
                                 node[1].result, Size(node[1].children) > 0, after,
                                 oppositeColor(color), nextKo, Append(moves, c), d - 1) :
                  c \in {x \in Window : /\ ko # <<x>>
                                        /\ ~addMoveThrows(board, Move(x, color))}}

Outcomes(tree, d) ==
    Explore(tree, RootWildcard(tree), Incomplete, FALSE, parsedBoard.board, toPlay,
            <<>>, <<>>, d)

\* The same declared paths in another declaration order (solutions still
\* before sequences).
Reorderings(seqs) ==
    {r \in {[k \in 1..Len(seqs) |-> seqs[f[k]]] :
              f \in {g \in [1..Len(seqs) -> 1..Len(seqs)] :
                       \A i, j \in 1..Len(seqs) : i # j => g[i] # g[j]}} :
        \A i, j \in 1..Len(r) : i < j /\ r[j].isSolution => r[i].isSolution}

LongestPath(seqs) ==
    IF seqs = <<>> THEN 0
    ELSE CHOOSE n \in {Len(seqs[k].marks) : k \in 1..Len(seqs)} :
            \A k \in 1..Len(seqs) : Len(seqs[k].marks) <= n

\* State of the diagram that a reply would change.
playState == <<currentBoard, playedMoves, isBlackTurn, whiteCaptured, blackCaptured,
               koPoint, currentTree, currentWildcard, result>>

\* A step in which the oldest pending callback fired.
CallbackFired == Len(timers') < Len(timers)

\* ------------------------------------------------------------------------
\* Claims
\* ------------------------------------------------------------------------

\* C1: a callback scheduled before a reset() applies no reply when it fires:
\* board, played moves, side to move, capture counts, ko point, tree cursor
\* and result stay as they were.
C1_ResetCancelsReply ==
    [][CallbackFired /\ Head(timers).reset => UNCHANGED playState]_vars

\* C2: a callback whose tree cursor was superseded after it was scheduled is
\* a no-op when it fires.
C2_SupersededReplyIsNoOp ==
    [][CallbackFired /\ Head(timers).stale => UNCHANGED playState]_vars

\* C3: at most one deferred opponent-reply callback is pending at any moment.
C3_SinglePendingReply == Len(timers) <= 1

\* C4: once result is Success, no player click and no opponent reply
\* changes it.
C4_SuccessSticky ==
    [][result = Success /\ lastOp'.kind \in {"click", "reply"} => result' = Success]_vars

\* C5: once result is Failure, no player click and no opponent reply
\* changes it.
C5_FailureSticky ==
    [][result = Failure /\ lastOp'.kind \in {"click", "reply"} => result' = Failure]_vars

\* C6: in the sequence tree built at construction every node with a child or
\* a wildcardChild is Incomplete.
C6_InnerNodesIncomplete ==
    \A c \in DOMAIN sequenceTree : NodeOK(sequenceTree[c])

\* C7: with a single declared path, the position reached by its last step is
\* Success for a solution and Failure otherwise, and the position of every
\* earlier step is Incomplete.
C7_SinglePathResults ==
    built = 1 /\ Len(allSequences) = 1 =>
        LET marks == allSequences[1].marks
        IN  \A k \in 1..Len(marks) :
              LET at == Walk(sequenceTree, marks, parsedBoard.otherMarks, k)
              IN  /\ at # <<>>
                  /\ at[1].result = IF k = Len(marks)
                                    THEN LeafResult(allSequences[1].isSolution)
                                    ELSE Incomplete

\* C8: the tree built from the same declared paths in another declaration
\* order gives every playable move sequence the same result.
C8_OrderIndependent ==
    built = Len(allSequences) =>
        \A r \in Reorderings(allSequences) :
            Outcomes(BuildTree(r, Len(r), parsedBoard.otherMarks),
                     LongestPath(allSequences) + 1)
              = Outcomes(sequenceTree, LongestPath(allSequences) + 1)

\* C9: where a newly merged path meets a node already in the tree, the
\* merged node is Incomplete if it has children or a wildcardChild, and
\* otherwise keeps the result of the earlier-declared node.
C9_MergedResult ==
    [][built' = built + 1 /\ allSequences'[built'].marks[1] # "*" =>
         LET seq == allSequences'[built']
             om == parsedBoard.otherMarks
             single == FoldSequence(EmptyTree, seq, om)
         IN  \A k \in 1..Len(seq.marks) :
               LET before == Walk(sequenceTree, seq.marks, om, k)
                   added == Walk(single, seq.marks, om, k)
                   merged == Walk(sequenceTree', seq.marks, om, k)
               IN  before # <<>> /\ added # <<>> =>
                     /\ merged # <<>>
                     /\ merged[1].result = IF IsInner(merged[1]) THEN Incomplete
                                           ELSE before[1].result]_vars

\* Witness of C9: a sequence declared after a solution with the same path;
\* the shared leaf kept Success.
C9_Witness ==
    /\ built = 2
    /\ allSequences[1].marks = allSequences[2].marks
    /\ allSequences[1].marks[1] # "*"
    /\ allSequences[1].isSolution /\ ~allSequences[2].isSolution
    /\ LET at == Walk(sequenceTree, allSequences[2].marks, parsedBoard.otherMarks,
                      Len(allSequences[2].marks))
       IN  at # <<>> /\ ~IsInner(at[1]) /\ at[1].result = Success

\* C10: a legal player move at a coordinate that is no key of the current
\* tree, with no current wildcard, is recorded and placed, makes result
\* Failure unless it is Success, and empties the cursor.
C10_OffTreeMove ==
    [][\A coord \in Window :
         /\ lastOp'.kind = "click" /\ lastOp'.coord = coord
         /\ coord \notin DOMAIN currentTree /\ currentWildcard = <<>>
         /\ ~KoViolation(coord)
         /\ ~addMoveThrows(currentBoard, Move(coord, currentColor))
         => /\ playedMoves' = Append(playedMoves, Move(coord, currentColor))
            /\ currentBoard' = addMove(currentBoard, Move(coord, currentColor))
            /\ result' = IF result = Success THEN Success ELSE Failure
            /\ currentTree' = EmptyTree
            /\ currentWildcard' = <<>>]_vars

\* Witness of C10: an off-tree click was just played and the result is Failure.
C10_Witness ==
    /\ lastOp.kind = "click" /\ lastOp.outcome = "offTree"
    /\ playedMoves # <<>>
    /\ playedMoves[Len(playedMoves)].coordinate = lastOp.coord
    /\ currentBoard[lastOp.coord] # EMPTY
    /\ result = Failure
    /\ currentTree = EmptyTree /\ currentWildcard = <<>>

\* Number of stones on a board.
StoneCount(board) == Cardinality({q \in DOMAIN board : board[q] # EMPTY})

\* No move recorded so far was refused by addMove: every recorded move is a
\* stone on the board or a captured stone.
NoMoveThrew ==
    StoneCount(currentBoard) + whiteCaptured + blackCaptured
        = StoneCount(parsedBoard.board) + Len(playedMoves)

\* The recorded moves are exactly the steps of the declared path, a "*"
\* step standing for any move.
PlayedAlong(marks) ==
    /\ Len(playedMoves) = Len(marks)
    /\ \A i \in 1..Len(marks) :
          marks[i] # "*" =>
              playedMoves[i].coordinate = parsedBoard.otherMarks[marks[i]][1]

\* C11: on a legal player move an explicit child of the current tree is the
\* matched node, the current wildcard is matched only when there is no
\* explicit child, and the cursor and result become the matched node's.
C11_ExplicitChildFirst ==
    [][\A coord \in Window :
         /\ lastOp'.kind = "click" /\ lastOp'.coord = coord
         /\ ~KoViolation(coord)
         /\ ~addMoveThrows(currentBoard, Move(coord, currentColor))
         /\ (coord \in DOMAIN currentTree \/ currentWildcard # <<>>)
         => LET matched == IF coord \in DOMAIN currentTree
                           THEN currentTree[coord]
                           ELSE currentWildcard[1]
            IN  /\ currentTree' = matched.children
                /\ currentWildcard' = matched.wildcardChild
                /\ result' = matched.result]_vars

\* Witness of C11: the first click was at a root node while a root-level
\* wildcard with a different continuation existed, and the cursor is the
\* explicit node's.
C11_Witness ==
    /\ lastOp.kind = "click" /\ lastOp.outcome = "matched"
    /\ Len(playedMoves) = 1 /\ NoMoveThrew
    /\ lastOp.coord \in DOMAIN sequenceTree
    /\ RootWildcard(sequenceTree) # <<>>
    /\ RootWildcard(sequenceTree)[1].children # sequenceTree[lastOp.coord].children
    /\ currentTree = sequenceTree[lastOp.coord].children

\* C12: a matched node with children schedules exactly one callback and a
\* matched node without children schedules none; a callback that fires
\* directly after the click that scheduled it plays a reply at one of the
\* matched node's child coordinates.
C12_OneReplyAmongChildren ==
    [][/\ lastOp'.kind = "click" /\ lastOp'.outcome = "matched" =>
            Len(timers') = Len(timers) + (IF Size(currentTree') > 0 THEN 1 ELSE 0)
       /\ lastOp'.kind = "click" /\ lastOp'.outcome # "matched" =>
            Len(timers') = Len(timers)
       /\ /\ CallbackFired
          /\ lastOp.kind = "click" /\ lastOp.outcome = "matched"
          /\ Len(timers) = 1 /\ ~Head(timers).stale
          => /\ lastOp'.outcome = "played"
             /\ lastOp'.coord \in DOMAIN currentTree
             /\ currentBoard'[lastOp'.coord] = currentColor
             /\ timers' = <<>>]_vars

\* C13: when the recorded moves are the successive steps of a declared
\* solution path, none of them refused, the result is Success.
C13_SolutionPlayedIsSuccess ==
    \A k \in 1..Len(allSequences) :
        /\ allSequences[k].isSolution
        /\ PlayedAlong(allSequences[k].marks)
        /\ NoMoveThrew
        => result = Success

\* C14: reset() puts the cursor at the root of the sequence tree with the
\* root-level wildcard, and board, side to move, capture counts, ko point,
\* played moves and result at their values after construction.
C14_ResetRestores ==
    [][lastOp'.kind = "reset" =>
         /\ currentTree' = sequenceTree
         /\ currentWildcard' = RootWildcard(sequenceTree)
         /\ currentBoard' = parsedBoard.board
         /\ isBlackTurn' = (toPlay = BLACK)
         /\ whiteCaptured' = 0 /\ blackCaptured' = 0
         /\ koPoint' = <<>>
         /\ playedMoves' = <<>>
         /\ result' = Incomplete]_vars

\* Witness of C14: reset() ran after a matched click whose reply was still
\* pending, and the play state is the constructed one.
C14_Witness ==
    /\ lastOp.kind = "reset"
    /\ timers # <<>> /\ timers[1].reset
    /\ playedMoves = <<>> /\ currentBoard = parsedBoard.board
    /\ currentTree = sequenceTree /\ result = Incomplete
    /\ koPoint = <<>> /\ whiteCaptured = 0 /\ blackCaptured = 0

\* ------------------------------------------------------------------------
\* FreeplayDiagram
\* ------------------------------------------------------------------------
MaxHistory == 2      \* cap on the length of the Freeplay history

MoveEntry(move) == [type |-> "move", move |-> move]

PassEntry(color) == [type |-> "pass", color |-> color]

\* Initial side to move: to-play when given ("null" when not), else by mode.
FreeplayInitialTurn(tp, mode) ==
    IF tp # "null" THEN tp = BLACK ELSE mode # "white"

\* The loop of rebuildBoard over history[0..index], entries 1..n here, from
\* entry i on.  threw is set when addMove raises; the counters then hold
\* what the loop had added up so far.
RECURSIVE FreeplayReplay(_, _, _, _)
FreeplayReplay(entries, n, i, acc) ==
    IF i > n THEN acc
    ELSE IF entries[i].type = "move"
    THEN IF addMoveThrows(acc.board, entries[i].move)
         THEN [acc EXCEPT !.threw = TRUE]
         ELSE LET after == addMove(acc.board, entries[i].move)
                  captures == countCapturesFromDiff(acc.board, after)
              IN  FreeplayReplay(entries, n, i + 1,
                      [threw |-> FALSE,
                       board |-> after,
                       whiteCaptured |-> acc.whiteCaptured + captures.whiteCaptured,
                       blackCaptured |-> acc.blackCaptured + captures.blackCaptured,
                       boardBeforeLastMove |-> acc.board,
                       lastMove |-> <<entries[i].move>>])
    ELSE FreeplayReplay(entries, n, i + 1, [acc EXCEPT !.lastMove = <<>>])

\* Side to move after a rebuild.
FreeplayTurn(entries, index) ==
    IF colorMode = "black" THEN TRUE
    ELSE IF colorMode = "white" THEN FALSE
    ELSE IF index = -1 THEN TRUE
    ELSE LET lastEntry == entries[index + 1]
             lastColor == IF lastEntry.type = "move" THEN lastEntry.move.color
                          ELSE lastEntry.color
         IN  lastColor = WHITE

\* The fields rebuildBoard assigns.
freeplayState ==
    [currentBoard |-> currentBoard, whiteCaptured |-> whiteCaptured,
     blackCaptured |-> blackCaptured, koPoint |-> koPoint,
     isBlackTurn |-> isBlackTurn, currentMoveIndex |-> currentMoveIndex,
     threw |-> FALSE]

\* rebuildBoard() on the state st once the history is entries and the index
\* is index.  When addMove raises inside the loop, the counters were
\* already reset and partly recounted, and nothing after the loop is
\* assigned.
FreeplayRebuilt(st, entries, index) ==
    LET r == FreeplayReplay(entries, index + 1, 1,
                 [threw |-> FALSE, board |-> initialBoard,
                  whiteCaptured |-> 0, blackCaptured |-> 0,
                  boardBeforeLastMove |-> initialBoard, lastMove |-> <<>>])
    IN  [currentMoveIndex |-> index,
         whiteCaptured |-> r.whiteCaptured,
         blackCaptured |-> r.blackCaptured,
         currentBoard |-> IF r.threw THEN st.currentBoard ELSE r.board,
         koPoint |-> IF r.threw THEN st.koPoint
                     ELSE IF ~ignoreKo /\ r.lastMove # <<>>
                     THEN followupKo(r.boardBeforeLastMove, r.lastMove[1])
                     ELSE <<>>,
         isBlackTurn |-> IF r.threw THEN st.isBlackTurn
                         ELSE FreeplayTurn(entries, index),
         threw |-> r.threw]

\* The state a handler leaves that ended with rebuildBoard().
FreeplayAssigned(st, kind, coord) ==
    /\ currentMoveIndex' = st.currentMoveIndex
    /\ whiteCaptured' = st.whiteCaptured
    /\ blackCaptured' = st.blackCaptured
    /\ currentBoard' = st.currentBoard
    /\ koPoint' = st.koPoint
    /\ isBlackTurn' = st.isBlackTurn
    /\ lastOp' = Op(kind, IF st.threw THEN "threw" ELSE "ok", coord)

\* Fields no Freeplay or Replay operation assigns.
diagramFrame == <<parsedBoard, toPlay, ignoreKo, allSequences, sequenceTree, result,
                  currentTree, currentWildcard, playedMoves, timers, built,
                  diagramType, initialBoard, colorMode, moveSequence, lines>>

FreeplayConstructed(parsed, mode, tp, ko) ==
    /\ diagramType = "freeplay"
    /\ parsedBoard = parsed
    /\ colorMode = mode
    /\ toPlay = tp
    /\ ignoreKo = ko
    /\ initialBoard = parsed.board
    /\ currentBoard = parsed.board
    /\ history = <<>>
    /\ currentMoveIndex = -1
    /\ isBlackTurn = FreeplayInitialTurn(tp, mode)
    /\ whiteCaptured = 0
    /\ blackCaptured = 0
    /\ koPoint = <<>>
    /\ lastOp = Op("construct", "ok", <<>>)
    \* fields of the other classes, held at fixed values
    /\ allSequences = <<>>
    /\ sequenceTree = EmptyTree
    /\ result = Incomplete
    /\ currentTree = EmptyTree
    /\ currentWildcard = <<>>
    /\ playedMoves = <<>>
    /\ timers = <<>>
    /\ built = 0
    /\ moveSequence = <<>>
    /\ lines = <<>>

\* The history with everything after the cursor kept.
TruncatedKeepsAll(entries, index) == entries

\* history.slice(0, currentMoveIndex + 1)
Truncated(entries, index) == SubSeq(entries, 1, index + 1)

\* The board click handler.
FreeplayClick(coord) ==
    LET move == Move(coord, currentColor)
        entries == Append(Truncated(history, currentMoveIndex), MoveEntry(move))
    IN  /\ currentMoveIndex + 1 < MaxHistory
        /\ UNCHANGED diagramFrame
        /\ IF KoViolation(coord)
           THEN /\ lastOp' = Op("click", "ko", coord)
                /\ UNCHANGED <<history, currentMoveIndex, currentBoard, isBlackTurn,
                               whiteCaptured, blackCaptured, koPoint>>
           ELSE IF isLegalMove(currentBoard, move)
           THEN /\ history' = entries
                /\ FreeplayAssigned(
                       FreeplayRebuilt(freeplayState, entries, currentMoveIndex + 1),
                       "click", coord)
           ELSE /\ lastOp' = Op("click", "illegal", coord)
                /\ UNCHANGED <<history, currentMoveIndex, currentBoard, isBlackTurn,
                               whiteCaptured, blackCaptured, koPoint>>

\* undo() on the state st: one step back and a rebuild, or nothing at the
\* starting position.
undo(st) ==
    IF st.currentMoveIndex >= 0
    THEN FreeplayRebuilt(st, history, st.currentMoveIndex - 1)
    ELSE st

\* redo() on the state st: one step forward and a rebuild, or nothing at
\* the end of the history.
redo(st) ==
    IF st.currentMoveIndex < Len(history) - 1
    THEN FreeplayRebuilt(st, history, st.currentMoveIndex + 1)
    ELSE st

FreeplayUndo ==
    /\ UNCHANGED diagramFrame
    /\ UNCHANGED history
    /\ IF currentMoveIndex >= 0
       THEN FreeplayAssigned(undo(freeplayState), "undo", <<>>)
       ELSE /\ lastOp' = Op("undo", "none", <<>>)
            /\ UNCHANGED <<currentMoveIndex, currentBoard, isBlackTurn,
                           whiteCaptured, blackCaptured, koPoint>>

FreeplayRedo ==
    /\ UNCHANGED diagramFrame
    /\ UNCHANGED history
    /\ IF currentMoveIndex < Len(history) - 1
       THEN FreeplayAssigned(redo(freeplayState), "redo", <<>>)
       ELSE /\ lastOp' = Op("redo", "none", <<>>)
            /\ UNCHANGED <<currentMoveIndex, currentBoard, isBlackTurn,
                           whiteCaptured, blackCaptured, koPoint>>

FreeplayPass ==
    /\ currentMoveIndex + 1 < MaxHistory
    /\ UNCHANGED diagramFrame
    /\ history' = Append(Truncated(history, currentMoveIndex),
                         PassEntry(currentColor))
    /\ currentMoveIndex' = currentMoveIndex + 1
    /\ isBlackTurn' = IF colorMode = "alternate" THEN ~isBlackTurn ELSE isBlackTurn
    /\ lastOp' = Op("pass", "ok", <<>>)
    /\ UNCHANGED <<currentBoard, whiteCaptured, blackCaptured, koPoint>>

\* reset() that forgets the cursor.
FreeplayResetKeepsCursor ==
    /\ UNCHANGED diagramFrame
    /\ history' = <<>>
    /\ UNCHANGED currentMoveIndex
    /\ currentBoard' = initialBoard
    /\ isBlackTurn' = IF toPlay # "null" THEN toPlay = BLACK
                      ELSE IF colorMode = "white" THEN FALSE
                      ELSE TRUE
    /\ whiteCaptured' = 0
    /\ blackCaptured' = 0
    /\ koPoint' = <<>>
    /\ lastOp' = Op("reset", "ok", <<>>)

FreeplayReset ==
    /\ UNCHANGED diagramFrame
    /\ history' = <<>>
    /\ currentMoveIndex' = -1
    /\ currentBoard' = initialBoard
    /\ isBlackTurn' = IF toPlay # "null" THEN toPlay = BLACK
                      ELSE IF colorMode = "white" THEN FALSE
                      ELSE TRUE
    /\ whiteCaptured' = 0
    /\ blackCaptured' = 0
    /\ koPoint' = <<>>
    /\ lastOp' = Op("reset", "ok", <<>>)

\* A corner ko: white at <<0, 0>> captures the black stone at <<0, 1>>.
KoRows == << <<".", "X", "O">>, <<"X", "O", ".">>, <<".", ".", ".">> >>

FreeplayBoards == {KoRows, << <<".", ".">>, <<".", "X">> >>}

InitFreeplay ==
    \E rows \in FreeplayBoards, mode \in {"black", "white", "alternate"},
       tp \in {"null", BLACK, WHITE}, ko \in BOOLEAN :
        FreeplayConstructed(ParseRows(rows), mode, tp, ko)

NextFreeplay ==
    \/ \E coord \in Window : FreeplayClick(coord)
    \/ FreeplayUndo
    \/ FreeplayRedo
    \/ FreeplayPass
    \/ FreeplayReset

SpecFreeplay == InitFreeplay /\ [][NextFreeplay]_vars

\* ------------------------------------------------------------------------
\* ReplayDiagram
\* ------------------------------------------------------------------------
MaxMoveNumber == 4   \* largest move number on a Replay board or in its moves option

\* parseInt(mark, 10) for the marks used here; 0 stands for "not a number".
MarkNumber(mark) ==
    CASE mark = "1" -> 1
      [] mark = "2" -> 2
      [] mark = "3" -> 3
      [] mark = "4" -> 4
      [] OTHER -> 0

\* The coordinate of a move number: its place on the board, else the
\* coordinate of the earlier move its moves entry refers to; <<>> when
\* resolving raises.
RECURSIVE resolveCoordinate(_, _, _)
resolveCoordinate(moveNum, boardCoordinates, movesMap) ==
    IF moveNum \in DOMAIN boardCoordinates THEN <<boardCoordinates[moveNum]>>
    ELSE IF moveNum \in DOMAIN movesMap
    THEN IF movesMap[moveNum] >= moveNum THEN <<>>
         ELSE resolveCoordinate(movesMap[moveNum], boardCoordinates, movesMap)
    ELSE <<>>

\* The colour of every move played, whatever its number.
MoveColorFixed(moveNum, startColor) == startColor

\* Odd moves are startColor, even moves the opposite.
MoveColor(moveNum, startColor) ==
    IF moveNum % 2 = 1 THEN startColor ELSE oppositeColor(startColor)

\* Any set of move numbers passes.
ConsecutiveAny(moveNumbers) == TRUE

\* The sorted move numbers are 1, 2, 3, ...
Consecutive(moveNumbers) == moveNumbers = 1..Cardinality(moveNumbers)

\* sortedMoveNumbers[k - 1]
SortedMoveNumber(moveNumbers, k) ==
    CHOOSE n \in moveNumbers : Cardinality({m \in moveNumbers : m < n}) = k - 1

\* buildMoveSequence: [threw, moves].
buildMoveSequence(otherMarks, startColor, movesMap) ==
    LET numbered == {m \in DOMAIN otherMarks : MarkNumber(m) > 0}
        boardCoordinates ==
            [n \in {MarkNumber(m) : m \in numbered} |->
                otherMarks[CHOOSE m \in numbered : MarkNumber(m) = n][1]]
        allMoveNumbers == DOMAIN boardCoordinates \cup DOMAIN movesMap
        count == Cardinality(allMoveNumbers)
        raises ==
            \/ \E m \in numbered : Len(otherMarks[m]) > 1
            \/ allMoveNumbers = {}
            \/ ~Consecutive(allMoveNumbers)
            \/ \E n \in allMoveNumbers :
                  resolveCoordinate(n, boardCoordinates, movesMap) = <<>>
    IN  IF raises THEN [threw |-> TRUE, moves |-> <<>>]
        ELSE [threw |-> FALSE,
              moves |-> [k \in 1..count |->
                  LET n == SortedMoveNumber(allMoveNumbers, k)
                  IN  [moveNumber |-> n,
                       coordinate |-> resolveCoordinate(n, boardCoordinates, movesMap)[1],
                       color |-> MoveColor(n, startColor)]]]

\* The loop of rebuildBoard over moveSequence[0..index], moves 1..n here.
\* threw is set when addMove raises or the move does not exist.
RECURSIVE ReplayMoves(_, _, _, _)
ReplayMoves(moves, n, i, acc) ==
    IF i > n THEN acc
    ELSE IF i > Len(moves) THEN [acc EXCEPT !.threw = TRUE]
    ELSE LET move == Move(moves[i].coordinate, moves[i].color)
         IN  IF addMoveThrows(acc.board, move)
             THEN [acc EXCEPT !.threw = TRUE]
             ELSE LET after == addMove(acc.board, move)
                      captures == countCapturesFromDiff(acc.board, after)
                  IN  ReplayMoves(moves, n, i + 1,
                          [threw |-> FALSE,
                           board |-> after,
                           whiteCaptured |-> acc.whiteCaptured + captures.whiteCaptured,
                           blackCaptured |-> acc.blackCaptured + captures.blackCaptured])

\* goToMove(index) applied to a Replay state [currentMoveIndex, currentBoard,
\* whiteCaptured, blackCaptured]: the index is assigned, then rebuildBoard
\* runs; when it raises, currentBoard keeps its old value and the counters
\* hold what the loop had added up.
goToMove(st, index) ==
    LET r == ReplayMoves(moveSequence, index + 1, 1,
                 [threw |-> FALSE, board |-> initialBoard,
                  whiteCaptured |-> 0, blackCaptured |-> 0])
    IN  [currentMoveIndex |-> index,
         currentBoard |-> IF r.threw THEN st.currentBoard ELSE r.board,
         whiteCaptured |-> r.whiteCaptured,
         blackCaptured |-> r.blackCaptured,
         threw |-> r.threw]

replayState ==
    [currentMoveIndex |-> currentMoveIndex, currentBoard |-> currentBoard,
     whiteCaptured |-> whiteCaptured, blackCaptured |-> blackCaptured,
     threw |-> FALSE]

\* The guard of next() off by one.
CanAdvanceOff(index, n) == index < n

\* next() advances only below the last move.
CanAdvance(index, n) == index < n - 1

\* The state after a navigation handler called goToMove(index).
ReplayWent(kind, index) ==
    LET st == goToMove(replayState, index)
    IN  /\ currentMoveIndex' = st.currentMoveIndex
        /\ currentBoard' = st.currentBoard
        /\ whiteCaptured' = st.whiteCaptured
        /\ blackCaptured' = st.blackCaptured
        /\ lastOp' = Op(kind, IF st.threw THEN "threw" ELSE "ok", <<>>)

ReplayStayed(kind) ==
    /\ lastOp' = Op(kind, "none", <<>>)
    /\ UNCHANGED <<currentMoveIndex, currentBoard, whiteCaptured, blackCaptured>>

replayFrame == <<diagramFrame, history, isBlackTurn, koPoint>>

ReplayNext ==
    /\ UNCHANGED replayFrame
    /\ IF CanAdvance(currentMoveIndex, Len(moveSequence))
       THEN ReplayWent("next", currentMoveIndex + 1)
       ELSE ReplayStayed("next")

ReplayPrevious ==
    /\ UNCHANGED replayFrame
    /\ IF currentMoveIndex >= 0
       THEN ReplayWent("previous", currentMoveIndex - 1)
       ELSE ReplayStayed("previous")

ReplayFirst ==
    /\ UNCHANGED replayFrame
    /\ ReplayWent("first", -1)

ReplayLast ==
    /\ UNCHANGED replayFrame
    /\ ReplayWent("last", Len(moveSequence) - 1)

\* The constructor: TRUE when it raises nothing, with the state it leaves.
ReplayConstructed(parsed, startColor, movesMap, initialMove) ==
    LET built0 == buildMoveSequence(parsed.otherMarks, startColor, movesMap)
        r == ReplayMoves(built0.moves, initialMove, 1,
                 [threw |-> FALSE, board |-> parsed.board,
                  whiteCaptured |-> 0, blackCaptured |-> 0])
    IN  /\ \A n \in DOMAIN movesMap : movesMap[n] # n
        /\ ~built0.threw
        /\ initialMove <= Len(built0.moves)
        /\ ~r.threw
        /\ diagramType = "replay"
        /\ parsedBoard = parsed
        /\ initialBoard = parsed.board
        /\ moveSequence = built0.moves
        /\ currentMoveIndex = initialMove - 1
        /\ currentBoard = r.board
        /\ whiteCaptured = r.whiteCaptured
        /\ blackCaptured = r.blackCaptured
        /\ lastOp = Op("construct", "ok", <<>>)
        \* fields of the other classes, held at fixed values
        /\ toPlay = startColor
        /\ ignoreKo = FALSE
        /\ isBlackTurn = (startColor = BLACK)
        /\ koPoint = <<>>
        /\ history = <<>>
        /\ colorMode = "alternate"
        /\ allSequences = <<>>
        /\ sequenceTree = EmptyTree
        /\ result = Incomplete
        /\ currentTree = EmptyTree
        /\ currentWildcard = <<>>
        /\ playedMoves = <<>>
        /\ timers = <<>>
        /\ built = 0
        /\ lines = <<>>

ReplayTokens == {"1", "2", "3", ".", "X"}

\* 2 x 2 boards over the tokens.
ReplayBoards ==
    {<< <<t[1], t[2]>>, <<t[3], t[4]>> >> : t \in [1..4 -> ReplayTokens]}

\* The moves option: move numbers above 2 referring to moves 1 or 2.
ReplayMovesMaps ==
    UNION {[D -> {1, 2}] : D \in SUBSET (3..MaxMoveNumber)}

InitReplay ==
    \E rows \in ReplayBoards, startColor \in {BLACK, WHITE},
       movesMap \in ReplayMovesMaps, initialMove \in 0..MaxMoveNumber :
        ReplayConstructed(ParseRows(rows), startColor, movesMap, initialMove)

NextReplay ==
    \/ ReplayNext
    \/ ReplayPrevious
    \/ ReplayFirst
    \/ ReplayLast

SpecReplay == InitReplay /\ [][NextReplay]_vars

\* ------------------------------------------------------------------------
\* The three interactive diagrams side by side, the Problem diagram on the
\* ko board
\* ------------------------------------------------------------------------
KoProblemRows == << <<"a", "X", "O">>, <<"X", "O", "b">>, <<".", ".", ".">> >>

KoProblemParsed == ParseRows(KoProblemRows)

KoProblemPaths ==
    [color \in {BLACK, WHITE} |-> ValidPaths(KoProblemParsed, color, MaxPathLen)]

InitKoProblem ==
    \E color \in {BLACK, WHITE}, ko \in BOOLEAN :
      \E seqs \in SequenceLists(KoProblemPaths[color], 1) :
          /\ ConstructorAccepts(KoProblemParsed, color, seqs)
          /\ Constructed(KoProblemParsed, color, ko, seqs)

InitDiagrams == InitKoProblem \/ InitFreeplay \/ InitReplay

NextDiagrams ==
    \/ diagramType = "problem" /\ Next
    \/ diagramType = "freeplay" /\ NextFreeplay
    \/ diagramType = "replay" /\ NextReplay

SpecDiagrams == InitDiagrams /\ [][NextDiagrams]_vars

\* Everything a click may change in a Problem or a Freeplay diagram.
clickState == <<currentBoard, history, currentMoveIndex, playedMoves, currentTree,
                currentWildcard, isBlackTurn, whiteCaptured, blackCaptured, koPoint,
                result, timers>>

\* C15: a click on a point where the move is illegal for the side to move
\* (occupied point or suicide) raises no error and changes no state, in
\* Problem and Freeplay diagrams.
C15_IllegalClickIgnored ==
    [][\A coord \in Window :
         /\ diagramType \in {"problem", "freeplay"}
         /\ lastOp'.kind = "click" /\ lastOp'.coord = coord
         /\ addMoveThrows(currentBoard, Move(coord, currentColor))
         => /\ lastOp'.outcome # "threw"
            /\ UNCHANGED clickState]_vars

\* C16: with ko enforced, a click on the active ko point raises no error
\* and changes no state, in Problem and Freeplay diagrams.
C16_KoClickRejected ==
    [][\A coord \in Window :
         /\ diagramType \in {"problem", "freeplay"}
         /\ lastOp'.kind = "click" /\ lastOp'.coord = coord
         /\ ~ignoreKo /\ koPoint = <<coord>>
         => /\ lastOp'.outcome # "threw"
            /\ UNCHANGED clickState]_vars

\* Witness of C16: a click on the ko point was just rejected although the
\* recapture there is a legal move on the board.
C16_Witness ==
    /\ lastOp.kind = "click" /\ lastOp.outcome = "ko"
    /\ ~ignoreKo /\ koPoint = <<lastOp.coord>>
    /\ ~addMoveThrows(currentBoard, Move(lastOp.coord, currentColor))
    /\ whiteCaptured + blackCaptured = 1

\* C17: with ko ignored no ko point is ever active and no click is rejected
\* for ko.
C17_IgnoreKoNoKoPoint ==
    [][ignoreKo => /\ koPoint = <<>>
                   /\ koPoint' = <<>>
                   /\ lastOp'.outcome # "ko"]_vars

\* Witness of C17: with ko ignored, a single stone was captured and the
\* capturing stone was recaptured at once by a click on the vacated point.
C17_Witness ==
    /\ ignoreKo
    /\ lastOp.kind = "click" /\ lastOp.outcome \in {"ok", "matched", "offTree"}
    /\ whiteCaptured = 1 /\ blackCaptured = 1
    /\ Len(history) + Len(playedMoves) = 2
    /\ currentBoard[lastOp.coord] # EMPTY
    /\ koPoint = <<>>

\* C18: after construction no operation raises an error.
C18_NoErrorDuringPlay == lastOp.outcome # "threw"

\* C19: the Replay cursor is in [-1, N-1] after construction and after every
\* navigation; next at N-1 and previous at -1 leave it unchanged.
C19_CursorInRange ==
    [][diagramType = "replay" =>
         LET N == Len(moveSequence)
         IN  /\ currentMoveIndex \in -1..(N - 1)
             /\ currentMoveIndex' \in -1..(N - 1)
             /\ lastOp'.kind = "next" /\ currentMoveIndex = N - 1
                  => currentMoveIndex' = currentMoveIndex
             /\ lastOp'.kind = "previous" /\ currentMoveIndex = -1
                  => currentMoveIndex' = currentMoveIndex]_vars

\* Witness of C19: next() was called at the last move and the cursor stayed.
C19_Witness ==
    /\ diagramType = "replay"
    /\ lastOp.kind = "next" /\ lastOp.outcome = "none"
    /\ currentMoveIndex = Len(moveSequence) - 1
    /\ Len(moveSequence) >= 2

\* C20: from any reachable Replay state, last(); first(); last() ends with
\* the board and the capture counts that the first last() gave.
C20_LastFirstLast ==
    diagramType = "replay" =>
        LET N == Len(moveSequence)
            s1 == goToMove(replayState, N - 1)
            s2 == goToMove(s1, -1)
            s3 == goToMove(s2, N - 1)
        IN  /\ s3.currentBoard = s1.currentBoard
            /\ s3.whiteCaptured = s1.whiteCaptured
            /\ s3.blackCaptured = s1.blackCaptured

\* ------------------------------------------------------------------------
\* Replay: what the cursor determines
\* ------------------------------------------------------------------------
\* The moves 0..index of the sequence replayed on the initial board with
\* both counters from zero.
ReplayedTo(index) ==
    ReplayMoves(moveSequence, index + 1, 1,
        [threw |-> FALSE, board |-> initialBoard,
         whiteCaptured |-> 0, blackCaptured |-> 0])

\* C21: after every navigation operation of a Replay diagram the board and
\* both capture counters are those of replaying moves 0..cursor on the
\* initial board with the counters from zero.
C21_BoardFollowsCursor ==
    /\ diagramType = "replay"
    /\ lastOp.kind \in {"next", "previous", "first", "last"}
    => /\ ~ReplayedTo(currentMoveIndex).threw
       /\ currentBoard = ReplayedTo(currentMoveIndex).board
       /\ whiteCaptured = ReplayedTo(currentMoveIndex).whiteCaptured
       /\ blackCaptured = ReplayedTo(currentMoveIndex).blackCaptured

\* ------------------------------------------------------------------------
\* Replay: the constructor applied to the text of a diagram
\* ------------------------------------------------------------------------
MaxBuildNumber == 3  \* largest move number in a moves option (SpecReplayBuild)

\* A diagram's text was split into lines and no constructor has run yet.
Loaded(type, text) ==
    /\ diagramType = type
    /\ lines = text
    /\ lastOp = Op("load", "ok", <<>>)
    /\ parsedBoard = <<>>
    /\ initialBoard = <<>>
    /\ currentBoard = <<>>
    /\ moveSequence = <<>>
    /\ history = <<>>
    /\ currentMoveIndex = -1
    /\ whiteCaptured = 0
    /\ blackCaptured = 0
    /\ toPlay = "null"
    /\ ignoreKo = FALSE
    /\ isBlackTurn = TRUE
    /\ koPoint = <<>>
    /\ colorMode = "alternate"
    /\ allSequences = <<>>
    /\ sequenceTree = EmptyTree
    /\ result = Incomplete
    /\ currentTree = EmptyTree
    /\ currentWildcard = <<>>
    /\ playedMoves = <<>>
    /\ timers = <<>>
    /\ built = 0

\* The colour named by the options: to-play before start-color, black when
\* neither is given ("null").
ColorValue(config) ==
    LET colorOption == IF config.toPlay # "null" THEN config.toPlay
                       ELSE config.startColor
    IN  IF colorOption # "null" THEN colorOption ELSE "black"

\* The Replay constructor on a parsed board and its options
\* [toPlay, startColor, moves, initialMove].
ReplayConstructor(parsed, config) ==
    LET startColor == IF ColorValue(config) = "white" THEN WHITE ELSE BLACK
        built0 == buildMoveSequence(parsed.otherMarks, startColor, config.moves)
        r == ReplayMoves(built0.moves, config.initialMove, 1,
                 [threw |-> FALSE, board |-> parsed.board,
                  whiteCaptured |-> 0, blackCaptured |-> 0])
    IN  [threw |-> \/ ColorValue(config) \notin {"black", "white"}
                   \/ config.initialMove < 0
                   \/ \E n \in DOMAIN config.moves :
                         n <= 0 \/ config.moves[n] <= 0 \/ config.moves[n] = n
                   \/ built0.threw
                   \/ config.initialMove > Len(built0.moves)
                   \/ r.threw,
         startColor |-> startColor,
         moveSequence |-> built0.moves,
         currentMoveIndex |-> config.initialMove - 1,
         currentBoard |-> r.board,
         whiteCaptured |-> r.whiteCaptured,
         blackCaptured |-> r.blackCaptured]

\* new ReplayDiagram(element, lines): the board is parsed, the options are
\* read and the diagram is built, or an error is raised and no diagram exists.
ReplayConstruct ==
    /\ diagramType = "replay"
    /\ lastOp.kind = "load"
    /\ LET parsed == ParseRows(lines.rows)
           c == ReplayConstructor(parsed, lines.config)
       IN  IF c.threw
           THEN /\ lastOp' = Op("construct", "threw", <<>>)
                /\ UNCHANGED <<parsedBoard, initialBoard, moveSequence,
                               currentMoveIndex, currentBoard, whiteCaptured,
                               blackCaptured, toPlay, isBlackTurn, lines>>
           ELSE /\ lastOp' = Op("construct", "ok", <<>>)
                /\ parsedBoard' = parsed
                /\ initialBoard' = parsed.board
                /\ moveSequence' = c.moveSequence
                /\ currentMoveIndex' = c.currentMoveIndex
                /\ currentBoard' = c.currentBoard
                /\ whiteCaptured' = c.whiteCaptured
                /\ blackCaptured' = c.blackCaptured
                /\ toPlay' = c.startColor
                /\ isBlackTurn' = (c.startColor = BLACK)
                /\ lines' = <<>>
    /\ UNCHANGED <<ignoreKo, koPoint, history, colorMode, allSequences, sequenceTree,
                   result, currentTree, currentWildcard, playedMoves, timers, built,
                   diagramType>>

ReplayBuildTokens == {"1", "2", "."}

ReplayBuildBoards ==
    {<< <<t[1], t[2]>>, <<t[3], t[4]>> >> : t \in [1..4 -> ReplayBuildTokens]}

\* Every moves option over the move numbers 1..MaxBuildNumber, references to
\* the move itself and to later moves included.
ReplayBuildMaps ==
    UNION {[D -> 1..MaxBuildNumber] : D \in SUBSET (1..MaxBuildNumber)}

ReplayConfigs ==
    [toPlay : {"null", BLACK, WHITE}, startColor : {"null", BLACK, WHITE},
     moves : ReplayBuildMaps, initialMove : 0..1]

InitReplayBuild ==
    \E rows \in ReplayBuildBoards, config \in ReplayConfigs :
        Loaded("replay", [rows |-> rows, config |-> config])

NextReplayBuild == ReplayConstruct

SpecReplayBuild == InitReplayBuild /\ [][NextReplayBuild]_vars

\* The points of the board text carrying move number n.
NumberCells(rows, n) ==
    {q \in (1..Len(rows)) \X (1..Len(rows[1])) : MarkNumber(rows[q[1]][q[2]]) = n}

\* TRUE when following the references from cur for at most k steps comes
\* back to start.
RECURSIVE ChainReturns(_, _, _, _)
ChainReturns(movesMap, start, cur, k) ==
    /\ k > 0
    /\ cur \in DOMAIN movesMap
    /\ \/ movesMap[cur] = start
       \/ ChainReturns(movesMap, start, movesMap[cur], k - 1)

\* C22: Replay construction succeeds only if the move numbers on the board
\* together with the keys of the moves option are exactly 1..N with N >= 1
\* and no number is placed at more than one point; a gap, a missing 1, a
\* doubly placed number or no numbered move at all raises an error.
C22_ConsecutiveNumbers ==
    [][/\ diagramType = "replay"
       /\ lastOp'.kind = "construct" /\ lastOp'.outcome = "ok"
       => LET boardNumbers == {n \in 1..9 : NumberCells(lines.rows, n) # {}}
              numbers == boardNumbers \cup DOMAIN lines.config.moves
              N == Cardinality(numbers)
          IN  /\ N >= 1
              /\ numbers = 1..N
              /\ \A n \in boardNumbers :
                    Cardinality(NumberCells(lines.rows, n)) = 1
              /\ Len(moveSequence') = N]_vars

\* Witness of C22: a diagram was built whose moves 1..N come partly from the
\* board and partly from the moves option.
C22_Witness ==
    /\ diagramType = "replay"
    /\ lastOp.kind = "construct" /\ lastOp.outcome = "ok"
    /\ Len(moveSequence) = 3
    /\ \E k \in 1..3 : \A m \in DOMAIN parsedBoard.otherMarks : MarkNumber(m) # k
    /\ \E m \in DOMAIN parsedBoard.otherMarks : MarkNumber(m) > 0

\* C23: Replay construction raises an error for every entry of the moves
\* option that refers to a move with an equal or a later number, and for
\* every circular chain of references.
C23_ReferencesEarlier ==
    [][/\ diagramType = "replay"
       /\ lastOp'.kind = "construct" /\ lastOp'.outcome = "ok"
       => LET movesMap == lines.config.moves
          IN  /\ \A n \in DOMAIN movesMap : movesMap[n] < n
              /\ \A n \in DOMAIN movesMap :
                    ~ChainReturns(movesMap, n, n, MaxBuildNumber)]_vars

\* C24: the colour of Replay move k follows strict parity from the start
\* colour (to-play, else start-color, else black): odd moves have the start
\* colour, even moves the opposite one, consecutive moves alternate.
C24_ColourParity ==
    [][/\ diagramType = "replay"
       /\ lastOp'.kind = "construct" /\ lastOp'.outcome = "ok"
       => LET config == lines.config
              start == IF config.toPlay # "null" THEN config.toPlay
                       ELSE IF config.startColor # "null" THEN config.startColor
                       ELSE BLACK
              moves == moveSequence'
          IN  /\ \A k \in 1..Len(moves) :
                    /\ moves[k].moveNumber = k
                    /\ k % 2 = 1 => moves[k].color = start
                    /\ k % 2 = 0 => moves[k].color = oppositeColor(start)
              /\ \A k \in 1..(Len(moves) - 1) :
                    moves[k + 1].color # moves[k].color]_vars

\* Witness of C24: a diagram with to-play white and start-color unused was
\* built; its three moves are white, black, white.
C24_Witness ==
    /\ diagramType = "replay"
    /\ lastOp.kind = "construct" /\ lastOp.outcome = "ok"
    /\ toPlay = WHITE
    /\ Len(moveSequence) = 3
    /\ moveSequence[1].color = WHITE
    /\ moveSequence[2].color = BLACK
    /\ moveSequence[3].color = WHITE

\* ------------------------------------------------------------------------
\* Freeplay: history, undo and redo, turn order
\* ------------------------------------------------------------------------
\* The colour recorded in a history entry.
EntryColor(entry) ==
    IF entry.type = "move" THEN entry.move.color ELSE entry.color

\* C25: a Freeplay move or pass taken while the cursor is before the end of
\* the history discards every entry after the cursor before it appends its
\* own; right after every accepted move or pass the cursor points at the
\* last history entry.
C25_TruncateThenAppend ==
    [][/\ diagramType = "freeplay"
       /\ lastOp'.kind \in {"click", "pass"}
       /\ lastOp'.outcome \in {"ok", "threw"}
       => /\ Len(history') = currentMoveIndex + 2
          /\ SubSeq(history', 1, currentMoveIndex + 1)
               = SubSeq(history, 1, currentMoveIndex + 1)
          /\ currentMoveIndex' = Len(history') - 1]_vars

\* Witness of C25: with to-play white in alternating mode a black first
\* entry exists only after an undo back to the start, so the move just
\* accepted replaced the entry that was undone.
C25_Witness ==
    /\ diagramType = "freeplay"
    /\ colorMode = "alternate" /\ toPlay = WHITE
    /\ lastOp.kind = "click" /\ lastOp.outcome = "ok"
    /\ Len(history) = 1
    /\ EntryColor(history[1]) = BLACK
    /\ currentMoveIndex = 0

\* C26: from any Freeplay position that has a move or pass to undo, undo()
\* followed by redo() leaves the board, both capture counts and the turn
\* indicator as they were.
C26_UndoRedoNoOp ==
    diagramType = "freeplay" /\ currentMoveIndex >= 0 =>
        LET after == redo(undo(freeplayState))
        IN  /\ after.currentBoard = currentBoard
            /\ after.whiteCaptured = whiteCaptured
            /\ after.blackCaptured = blackCaptured
            /\ after.isBlackTurn = isBlackTurn

\* C27: in fixed-black (fixed-white) mode every Freeplay move and pass is
\* black (white); in alternating mode every action has the colour opposite
\* to the action before it; to-play changes the colour of the first action
\* only.
C27_TurnOrder ==
    diagramType = "freeplay" =>
        \A i \in 1..Len(history) :
            LET c == EntryColor(history[i])
            IN  /\ colorMode = "black" => c = BLACK \/ (i = 1 /\ toPlay = WHITE)
                /\ colorMode = "white" => c = WHITE \/ (i = 1 /\ toPlay = BLACK)
                /\ colorMode = "alternate" /\ i > 1
                     => c = oppositeColor(EntryColor(history[i - 1]))

\* ------------------------------------------------------------------------
\* countCapturesFromDiff applied to two boards
\* ------------------------------------------------------------------------
\* The call: both counts are returned, neither board is written.
CountCaptures ==
    /\ diagramType = "none"
    /\ lastOp.kind = "load"
    /\ LET captures == countCapturesFromDiff(lines.boardBefore, lines.boardAfter)
       IN  /\ whiteCaptured' = captures.whiteCaptured
           /\ blackCaptured' = captures.blackCaptured
    /\ lastOp' = Op("count", "ok", <<>>)
    /\ UNCHANGED <<parsedBoard, toPlay, ignoreKo, allSequences, sequenceTree, result,
                   currentTree, currentWildcard, playedMoves, currentBoard,
                   isBlackTurn, koPoint, timers, built, otherDiagramVars>>

\* Every pair of boards on the 2 x 2 space.
InitCaptures ==
    \E boardBefore, boardAfter \in [(0..1) \X (0..1) -> {EMPTY, BLACK, WHITE}] :
        Loaded("none", [boardBefore |-> boardBefore, boardAfter |-> boardAfter])

SpecCaptures == InitCaptures /\ [][CountCaptures]_vars

MaxRows == 2         \* lines of board text (SpecValidate)
MaxRowLen == 3       \* characters per line, spaces included (SpecValidate)

\* row.replace(/\s/g, '')
NonSpace(row) == SelectSeq(row, LAMBDA ch : ch # " ")

\* The consecutive non-blank lines from line i on; leading blank lines are
\* skipped while none was collected (skip is TRUE).
RECURSIVE BoardRows(_, _, _)
BoardRows(text, i, skip) ==
    IF i > Len(text) THEN <<>>
    ELSE IF NonSpace(text[i]) = <<>>
    THEN IF skip THEN BoardRows(text, i + 1, TRUE) ELSE <<>>
    ELSE <<text[i]>> \o BoardRows(text, i + 1, FALSE)

\* Rows of any lengths pass.
RectangularAny(boardRows) == TRUE

\* All rows have the same number of non-space characters.
Rectangular(boardRows) ==
    \A r \in 1..Len(boardRows) :
        Len(NonSpace(boardRows[r])) = Len(NonSpace(boardRows[1]))

\* validateBoardRows from the first non-blank line on, the start index its
\* caller passes: TRUE when it raises.
validateBoardRows(text) ==
    LET boardRows == BoardRows(text, 1, TRUE)
    IN  boardRows = <<>> \/ ~Rectangular(boardRows)

\* No size ever conflicts with the board text.
SizeConflictNever(rowCount, columnCount, size) == FALSE

\* The board exceeds the given size, or is not square and no size is given.
SizeConflict(rowCount, columnCount, size) ==
    \/ size # <<>> /\ (rowCount > size[1] \/ columnCount > size[1])
    \/ rowCount # columnCount /\ size = <<>>

\* The column counter is not reset at the start of a row.
ParsedMovesColumnKept(boardRows) ==
    {Move(<<r - 1, (r - 1) * Len(NonSpace(boardRows[1])) + c - 1>>,
          TokenColor(NonSpace(boardRows[r])[c])) :
        <<r, c>> \in {rc \in (1..Len(boardRows)) \X (1..MaxRowLen + 1) :
                         /\ rc[2] <= Len(NonSpace(boardRows[rc[1]]))
                         /\ TokenColor(NonSpace(boardRows[rc[1]])[rc[2]]) # EMPTY}}

\* The parse loop: one move per stone token, at the row of its line and the
\* column of its position among the tokens of the line.
ParsedMoves(boardRows) ==
    {Move(<<r - 1, c - 1>>, TokenColor(NonSpace(boardRows[r])[c])) :
        <<r, c>> \in {rc \in (1..Len(boardRows)) \X (1..MaxRowLen + 1) :
                         /\ rc[2] <= Len(NonSpace(boardRows[rc[1]]))
                         /\ TokenColor(NonSpace(boardRows[rc[1]])[rc[2]]) # EMPTY}}

\* validateBoard: [threw, parsed] with parsed = [board, rowCount, columnCount].
validateBoard(text, size, allowEmpty) ==
    LET boardRows == BoardRows(text, 1, TRUE)
        rowCount == Len(boardRows)
        columnCount == Len(NonSpace(boardRows[1]))
        boardSize == IF size # <<>> THEN size[1] ELSE rowCount
        space == (0..(boardSize - 1)) \X (0..(boardSize - 1))
        moves == ParsedMoves(boardRows)
        raised == [threw |-> TRUE, parsed |-> <<>>]
    IN  IF size # <<>> /\ (size[1] <= 1 \/ size[1] > 19) THEN raised
        ELSE IF boardRows = <<>>
        THEN IF ~allowEmpty \/ size = <<>> THEN raised
             ELSE [threw |-> FALSE,
                   parsed |-> [board |-> [q \in space |-> EMPTY],
                               rowCount |-> boardSize, columnCount |-> boardSize]]
        ELSE IF ~Rectangular(boardRows) THEN raised
        ELSE IF SizeConflict(rowCount, columnCount, size) THEN raised
        ELSE IF \E r \in 1..rowCount : \E c \in 1..Len(NonSpace(boardRows[r])) :
                   NonSpace(boardRows[r])[c] \notin {".", "+", "X", "O", "x", "o"}
        THEN raised
        ELSE [threw |-> FALSE,
              parsed |-> [board |-> [q \in space |->
                              IF \E m \in moves : m.coordinate = q
                              THEN (CHOOSE m \in moves : m.coordinate = q).color
                              ELSE EMPTY],
                          rowCount |-> rowCount, columnCount |-> columnCount]]

\* What validation leaves alone.
validateFrame == <<toPlay, ignoreKo, allSequences, sequenceTree, result, currentTree,
                   currentWildcard, playedMoves, currentBoard, isBlackTurn,
                   whiteCaptured, blackCaptured, koPoint, timers, built,
                   otherDiagramVars>>

\* A diagram constructor calls validateBoard on its lines.
ValidateBoard ==
    /\ diagramType = "static"
    /\ lastOp.kind = "load"
    /\ LET v == validateBoard(lines.rows, lines.size, lines.allowEmpty)
       IN  IF v.threw
           THEN /\ lastOp' = Op("validateBoard", "threw", <<>>)
                /\ UNCHANGED parsedBoard
           ELSE /\ lastOp' = Op("validateBoard", "ok", <<>>)
                /\ parsedBoard' = v.parsed
    /\ UNCHANGED validateFrame

\* renderStaticDiagram calls validateBoardRows on its lines.
ValidateBoardRows ==
    /\ diagramType = "static"
    /\ lastOp.kind = "load"
    /\ lastOp' = Op("validateBoardRows",
                    IF validateBoardRows(lines.rows) THEN "threw" ELSE "ok", <<>>)
    /\ UNCHANGED parsedBoard
    /\ UNCHANGED validateFrame

\* Up to MaxRows lines of up to MaxRowLen characters, every size option
\* from absent to 3, empty boards allowed or not.
InitValidate ==
    \E n \in 0..MaxRows, size \in {<<>>, <<1>>, <<2>>, <<3>>}, allowEmpty \in BOOLEAN :
      \E text \in [1..n -> UNION {[1..k -> {".", "X", "?", " "}] : k \in 1..MaxRowLen}] :
        Loaded("static", [rows |-> text, size |-> size, allowEmpty |-> allowEmpty])

NextValidate == ValidateBoard \/ ValidateBoardRows

SpecValidate == InitValidate /\ [][NextValidate]_vars

\* The number of tokens of a line.
TokenCount(row) == Cardinality({i \in 1..Len(row) : row[i] # " "})

RECURSIVE TokensOf(_, _)
TokensOf(boardRows, r) ==
    IF r > Len(boardRows) THEN 0
    ELSE TokenCount(boardRows[r]) + TokensOf(boardRows, r + 1)

\* The board text has as many tokens as the window has points, and every
\* stone of the board is inside the window.
TokensFillWindow(text, parsed) ==
    /\ TokensOf(BoardRows(text, 1, TRUE), 1) = parsed.rowCount * parsed.columnCount
    /\ \A q \in DOMAIN parsed.board :
          parsed.board[q] # EMPTY
              => q[1] < parsed.rowCount /\ q[2] < parsed.columnCount

\* C31 as stated: for every board accepted by validation, exactly
\* rowCount x columnCount tokens are classified, and every classified stone
\* lies at a coordinate with row < rowCount and column < columnCount.
C31_AllTokensClassified ==
    [][/\ diagramType = "static"
       /\ lastOp'.kind = "validateBoard" /\ lastOp'.outcome = "ok"
       => TokensFillWindow(lines.rows, parsedBoard')]_vars

\* C31 amended: for every board accepted by validation from a text that has
\* board rows, exactly rowCount x columnCount tokens are classified, and
\* every classified stone lies at a coordinate with row < rowCount and
\* column < columnCount.  (An empty text accepted with a size gives
\* rowCount = columnCount = size and classifies no token.)
C31_TokensOfBoardRowsClassified ==
    [][/\ diagramType = "static"
       /\ lastOp'.kind = "validateBoard" /\ lastOp'.outcome = "ok"
       /\ BoardRows(lines.rows, 1, TRUE) # <<>>
       => TokensFillWindow(lines.rows, parsedBoard')]_vars

\* Witness of C31: a board of two rows and two columns was accepted inside
\* a size of 3, with a stone in its last row and last column.
C31_Witness ==
    /\ diagramType = "static"
    /\ lastOp.kind = "validateBoard" /\ lastOp.outcome = "ok"
    /\ lines.size = <<3>>
    /\ parsedBoard.rowCount = 2 /\ parsedBoard.columnCount = 2
    /\ parsedBoard.board[<<1, 1>>] = BLACK

\* ------------------------------------------------------------------------
\* Freeplay: cursor, ko point and side to move against the history
\* ------------------------------------------------------------------------
\* C37: after every Freeplay click, pass, undo, redo and reset the cursor is
\* in [-1, history length - 1]; undo at cursor -1 and redo at the last entry
\* change nothing.
C37_FreeplayCursorInRange ==
    [][diagramType = "freeplay" =>
         /\ currentMoveIndex \in -1..(Len(history) - 1)
         /\ currentMoveIndex' \in -1..(Len(history') - 1)
         /\ lastOp'.kind = "undo" /\ currentMoveIndex = -1
              => UNCHANGED <<history, freeplayState>>
         /\ lastOp'.kind = "redo" /\ currentMoveIndex = Len(history) - 1
              => UNCHANGED <<history, freeplayState>>]_vars

\* Witness of C37: redo was pressed at the last of two entries and nothing
\* moved.
C37_Witness ==
    /\ diagramType = "freeplay"
    /\ lastOp.kind = "redo" /\ lastOp.outcome = "none"
    /\ Len(history) = 2
    /\ currentMoveIndex = 1

\* The history up to the cursor replayed on the initial board.
FreeplayReplayedToCursor ==
    FreeplayReplay(history, currentMoveIndex + 1, 1,
        [threw |-> FALSE, board |-> initialBoard,
         whiteCaptured |-> 0, blackCaptured |-> 0,
         boardBeforeLastMove |-> initialBoard, lastMove |-> <<>>])

\* C38: in a Freeplay diagram with ko enforced the active ko point is the
\* one derived from the history up to the cursor: the follow-up ko of the
\* last entry when that entry is a move, none when it is a pass or the
\* cursor is at -1.
C38_KoPointFromHistory ==
    diagramType = "freeplay" /\ ~ignoreKo =>
        IF currentMoveIndex = -1 THEN koPoint = <<>>
        ELSE IF history[currentMoveIndex + 1].type = "pass" THEN koPoint = <<>>
        ELSE /\ ~FreeplayReplayedToCursor.threw
             /\ koPoint = followupKo(FreeplayReplayedToCursor.boardBeforeLastMove,
                                     history[currentMoveIndex + 1].move)

\* C39: whenever the Freeplay cursor is at -1 the side to play is the
\* initial side: the to-play colour if configured, otherwise white in
\* fixed-white mode and black otherwise.
C39_InitialSideAtStart ==
    diagramType = "freeplay" /\ currentMoveIndex = -1 =>
        isBlackTurn = (IF toPlay # "null" THEN toPlay = BLACK
                       ELSE colorMode # "white")

\* ------------------------------------------------------------------------
\* Problem: colours placed and the board against the played moves
\* ------------------------------------------------------------------------
\* C35: in a Problem diagram, under every interleaving of board clicks and
\* deferred reply callbacks, every stone placed by a click has the to-play
\* colour and every stone placed by a deferred reply has the opposite one.
C35_ClickPlayerReplyOpponent ==
    [][diagramType = "problem" =>
         /\ lastOp'.kind = "click" /\ lastOp'.outcome \in {"offTree", "matched"}
              => playedMoves'[Len(playedMoves')].color = toPlay
         /\ lastOp'.kind = "reply" /\ lastOp'.outcome = "played"
              => playedMoves'[Len(playedMoves')].color = oppositeColor(toPlay)]_vars

\* C40: in a Problem diagram the current board is always the initial board
\* with the recorded played moves applied in order, and the capture counters
\* are the numbers of stones of each colour those moves removed.
C40_BoardIsPlayedMoves ==
    diagramType = "problem" =>
        LET r == ReplayMoves(playedMoves, Len(playedMoves), 1,
                     [threw |-> FALSE, board |-> parsedBoard.board,
                      whiteCaptured |-> 0, blackCaptured |-> 0])
        IN  /\ ~r.threw
            /\ currentBoard = r.board
            /\ whiteCaptured = r.whiteCaptured
            /\ blackCaptured = r.blackCaptured

\* C36: if any declared path of a Problem diagram begins with a wildcard,
\* the wildcard fallback is active at the start of play and after every
\* reset(), whatever the order of the declarations, so that a first move
\* off the explicit root moves follows the wildcard continuation.
C36_RootWildcardActive ==
    /\ diagramType = "problem"
    /\ lastOp.kind \in {"construct", "reset"}
    /\ \E k \in 1..Len(allSequences) : allSequences[k].marks[1] = "*"
    => currentWildcard # <<>>

\* ------------------------------------------------------------------------
\* Problem: the constructor applied to the text of a diagram
\* ------------------------------------------------------------------------
\* new ProblemDiagram(element, lines): the board is parsed, every declared
\* path is validated and folded into the tree, or an error is raised and no
\* diagram exists.  The options are [toPlay, ignoreKo, solutions, sequences].
ProblemConstruct ==
    /\ diagramType = "problem"
    /\ lastOp.kind = "load"
    /\ LET parsed == ParseRows(lines.rows)
           config == lines.config
           seqs == [k \in 1..Len(config.solutions) |->
                       Declared(config.solutions[k], TRUE)]
                   \o [k \in 1..Len(config.sequences) |->
                          Declared(config.sequences[k], FALSE)]
           tree == BuildTree(seqs, Len(seqs), parsed.otherMarks)
       IN  IF ~ConstructorAccepts(parsed, config.toPlay, seqs)
           THEN /\ lastOp' = Op("construct", "threw", <<>>)
                /\ UNCHANGED <<parsedBoard, toPlay, ignoreKo, allSequences,
                               sequenceTree, built, currentTree, currentWildcard,
                               currentBoard, isBlackTurn, initialBoard, lines>>
           ELSE /\ lastOp' = Op("construct", "ok", <<>>)
                /\ parsedBoard' = parsed
                /\ toPlay' = config.toPlay
                /\ ignoreKo' = config.ignoreKo
                /\ allSequences' = seqs
                /\ sequenceTree' = tree
                /\ built' = Len(seqs)
                /\ currentTree' = tree
                /\ currentWildcard' = RootWildcard(tree)
                /\ currentBoard' = parsed.board
                /\ isBlackTurn' = (config.toPlay = BLACK)
                /\ initialBoard' = parsed.board
                /\ lines' = <<>>
    /\ UNCHANGED <<result, playedMoves, whiteCaptured, blackCaptured, koPoint, timers,
                   diagramType, history, currentMoveIndex, colorMode, moveSequence>>

\* Every configuration of at most one solution and one sequence over the
\* marks of the board and "*", legal or not.
InitProblemBuild ==
    \E toPlay0 \in {BLACK, WHITE}, ignoreKo0 \in BOOLEAN :
      \E solutions, sequences \in
            {<<>>} \cup {<<p>> : p \in PathsUpTo(DOMAIN ProblemParsed.otherMarks \cup {"*"},
                                                 MaxPathLen + 1)} :
        Loaded("problem",
               [rows |-> ProblemRows,
                config |-> [toPlay |-> toPlay0, ignoreKo |-> ignoreKo0,
                            solutions |-> solutions, sequences |-> sequences]])

SpecProblemBuild == InitProblemBuild /\ [][ProblemConstruct]_vars

\* The paths a configuration declares.
DeclaredPaths(config) ==
    {config.solutions[k] : k \in 1..Len(config.solutions)}
        \cup {config.sequences[k] : k \in 1..Len(config.sequences)}

\* TRUE when the steps i.. of a path, wildcards skipped, can each be played
\* on an empty point without suicide, colours alternating step by step.
RECURSIVE PathPlayable(_, _, _, _, _)
PathPlayable(marks, cells, i, board, color) ==
    IF i > Len(marks) THEN TRUE
    ELSE IF marks[i] = "*"
    THEN PathPlayable(marks, cells, i + 1, board, oppositeColor(color))
    ELSE LET move == Move(cells[marks[i]][1], color)
         IN  /\ board[move.coordinate] = EMPTY
             /\ ~addMoveThrows(board, move)
             /\ PathPlayable(marks, cells, i + 1, addMove(board, move),
                             oppositeColor(color))

\* C32: Problem construction raises an error for any declared path with a
\* wildcard at an odd (opponent-reply) position; an accepted path has its
\* wildcards at even (player-move) positions only.
C32_WildcardsAtPlayerMoves ==
    [][/\ diagramType = "problem"
       /\ lastOp'.kind = "construct" /\ lastOp'.outcome = "ok"
       => \A p \in DeclaredPaths(lines.config) :
             \A i \in 1..Len(p) : p[i] = "*" => (i - 1) % 2 = 0]_vars

\* Witness of C32: a diagram was built from a path with wildcards at the
\* positions 0 and 2.
C32_Witness ==
    /\ diagramType = "problem"
    /\ lastOp.kind = "construct" /\ lastOp.outcome = "ok"
    /\ \E k \in 1..Len(allSequences) :
          /\ Len(allSequences[k].marks) = 3
          /\ allSequences[k].marks[1] = "*"
          /\ allSequences[k].marks[2] # "*"
          /\ allSequences[k].marks[3] = "*"

C34_SolutionRequired ==
    [][/\ diagramType = "problem"
       /\ lastOp'.kind = "construct"
       /\ lines.config.solutions = <<>>
       => lastOp'.outcome = "threw"]_vars

====
